---- MODULE Spec2Model ----
(***************************************************************************)
(* Model of the TTS inference server: server/app.py (the HTTP handlers     *)
(* predict and batch_predict, remove_temp_file) and server/webui.py        *)
(* (LANG_DICT, get_tts_wav).                                               *)
(*                                                                         *)
(* The HTTP handlers are coroutines on one event loop: a handler runs      *)
(* without interruption by another handler from one await to the next      *)
(* (variable loop names the handler that is running).  get_tts_wav is a    *)
(* plain function that the UI framework runs in a worker thread, so its    *)
(* steps interleave with everything.                                       *)
(***************************************************************************)
EXTENDS Integers, Sequences, FiniteSets, TLC

\* ------------------------------------------------------------- bounds
NumReqs == 2
MaxRows == 2

Reqs == 1..NumReqs

\* Python's None, and a local name that was never assigned.
None == "None"
Unbound == <<"<unbound>">>

\* A field of the request that the handler has not read yet.
Unread == "<unread>"

\* ------------------------------------------------------------- tables
\* webui.py: the language table.  Keys are the UI labels, values the
\* engine's language codes.
LANG_DICT ==
  [k \in {"Chinese", "English", "Japanese", "ChineseEnglish",
          "JapaneseEnglish", "Multilingual"} |->
     CASE k = "Chinese"         -> "all_zh"
       [] k = "English"         -> "en"
       [] k = "Japanese"        -> "all_ja"
       [] k = "ChineseEnglish"  -> "zh"
       [] k = "JapaneseEnglish" -> "ja"
       [] k = "Multilingual"    -> "auto"]

\* app.py: the preset table read from server/example.json at startup.
example_json ==
  [c \in {"c1", "c2"} |->
     IF c = "c1"
       THEN [audio_path |-> "ref1.wav", ref_text |-> "ref text 1",
             ref_language |-> "Chinese",
             gpt_weights |-> "g1.ckpt", sovits_weights |-> "s1.pth"]
       ELSE [audio_path |-> "ref2.wav", ref_text |-> "ref text 2",
             ref_language |-> "English",
             gpt_weights |-> "g2.ckpt", sovits_weights |-> "s2.pth"]]

\* ------------------------------------------------------------- inputs
\* Character names a caller may send: absent, two known, one unknown.
CharacterNames == {None, "c1", "c2", "nobody"}

\* The identity fields as the caller sends them: all left out, all set,
\* all set with a language tag that LANG_DICT does not know.
CallerIdentity ==
  { [ref_audio_path |-> None, prompt_text |-> None, prompt_language |-> None,
     gpt_weights |-> None, sovits_weights |-> None],
    [ref_audio_path |-> "user.wav", prompt_text |-> "user text",
     prompt_language |-> "Japanese",
     gpt_weights |-> "gU.ckpt", sovits_weights |-> "sU.pth"],
    [ref_audio_path |-> "user.wav", prompt_text |-> "user text",
     prompt_language |-> "Klingon",
     gpt_weights |-> "gU.ckpt", sovits_weights |-> "sU.pth"] }

TextLanguages == {"Chinese", "Klingon"}
ZipFileNames == {None, "out.zip"}
FileNames == {"a.wav", "b.wav"}

\* ------------------------------------------------------------- file system
\* Names tempfile.NamedTemporaryFile draws from; it takes one that no
\* existing file has.
TempNames == <<"tmp1", "tmp2", "tmp3", "tmp4", "tmp5", "tmp6">>

\* os.path.join(tempfile.gettempdir(), filename)
TmpDirJoin(filename) == <<"tmpdir", filename>>

\* os.path.basename(path)
Basename(path) == path[Len(path)]

\* The path of a NamedTemporaryFile.
TempPath(i) == <<"tmpdir", TempNames[i]>>

Exists(files, path) == path \in DOMAIN files

\* tempfile.NamedTemporaryFile(delete=False): a new empty file under a name
\* that no existing file has.
NamedTemporaryFile(files) ==
  TempPath(CHOOSE i \in 1..Len(TempNames) :
             /\ ~Exists(files, TempPath(i))
             /\ \A j \in 1..(i-1) : Exists(files, TempPath(j)))

\* Writing `content` to `path` (sf.write, zipfile.ZipFile(path, 'w')).
WriteFile(files, path, content) ==
  [p \in DOMAIN files \cup {path} |-> IF p = path THEN content ELSE files[p]]

\* os.rename(src, dst): dst is replaced when it exists.
Rename(files, src, dst) ==
  IF src = dst THEN files
  ELSE [p \in (DOMAIN files \ {src}) \cup {dst} |->
          IF p = dst THEN files[src] ELSE files[p]]

\* os.remove(path) on an existing file.
Remove(files, path) == [p \in DOMAIN files \ {path} |-> files[p]]

\* Removing a directory tree (shutil.rmtree): the directory and all below it.
\* The handlers create plain files only, directly under the temp directory.
RmTree(files, path) == [p \in DOMAIN files \ {path} |-> files[p]]

IsDir(files, path) == Exists(files, path) /\ files[path].type = "dir"

\* app.py remove_temp_file: what the call does to the file system, and
\* whether it raises (os.remove of a missing path: FileNotFoundError).
remove_temp_file(files, path) ==
  IF IsDir(files, path)
    THEN [files |-> RmTree(files, path), raised |-> FALSE]
    ELSE IF Exists(files, path)
           THEN [files |-> Remove(files, path), raised |-> FALSE]
           ELSE [files |-> files, raised |-> TRUE]

\* ------------------------------------------------------------- state
VARIABLES
  sovits_model,   \* tts_inference.sovits_model: the active SoVITS weights
  gpt_model,      \* tts_inference.gpt_model: the active GPT weights
  fs,             \* the files that exist: path -> content
  req,            \* the HTTP requests: each one's locals and position
  loop,           \* the handler running on the event loop, 0: none
  ui              \* the worker thread running get_tts_wav

vars == <<sovits_model, gpt_model, fs, req, loop, ui>>

\* No path, and no content.
NoPath == << >>
NoContent == [type |-> "none"]

NoResult == [kind |-> "none", status |-> 0, detail |-> None, path |-> NoPath]

\* A request slot before its request has arrived.
IdleReq ==
  [pc |-> "idle", handler |-> "none",
   data |-> [character_name |-> Unread, ref_audio_path |-> Unread,
             prompt_text |-> Unread, prompt_language |-> Unread,
             gpt_weights |-> Unread, sovits_weights |-> Unread,
             text_language |-> Unread, zip_filename |-> Unread],
   audio |-> NoContent,         \* (sr, audio) of the last next(audio_generator)
   audio_files |-> << >>,     \* batch_predict's audio_files
   zip_file |-> Unbound,      \* batch_predict's zip_file.name
   final_zip_path |-> Unbound,
   tasks |-> << >>,           \* background_tasks: the paths to remove
   result |-> NoResult,       \* what the handler returned or raised
   sent |-> NoContent,        \* what the transmission of the response read
   calls |-> << >>,           \* the engine calls this request made, in order
   seen |-> [sovits |-> Unread, gpt |-> Unread],
                              \* the active weights the two comparisons
                              \* read, until the handler goes on to infer
   rows |-> 0,                \* rows of the table taken so far
   nexts |-> 0]               \* how often next(audio_generator) was called

InitSovits == "s0.pth"
InitGpt == "g0.ckpt"

IdleUi == [pc |-> "idle", sovits_model |-> None, gpt_model |-> None]

Init ==
  /\ sovits_model = InitSovits
  /\ gpt_model = InitGpt
  /\ fs = << >>
  /\ req = [r \in Reqs |-> IdleReq]
  /\ loop = 0
  /\ ui = IdleUi

\* ------------------------------------------------------------- engine
\* tts_inference.change_sovits_weights(path), change_gpt_weights(path):
\* the path becomes the active one.
change_sovits_weights(path) == sovits_model' = path
change_gpt_weights(path) == gpt_model' = path

\* The record of a call of the engine: a weight change with its path, or
\* infer with its arguments.
ChangeCall(kind, p) == [op |-> "change", kind |-> kind, path |-> p]
InferCall(args) == [op |-> "infer", args |-> args]

\* What tts_inference.infer is called with.
InferArgs(ref_audio, prompt_text, prompt_lang, text, text_lang) ==
  [ref_audio_path |-> ref_audio, prompt_text |-> prompt_text,
   prompt_language |-> prompt_lang, text |-> text, text_language |-> text_lang]

\* next(audio_generator): the (sr, audio) pair for the text, under the
\* weights active when it ran.
Synthesized(args) == [type |-> "wav", text |-> args.text]

\* ------------------------------------------------------------- results
\* return {"error": f"Missing necessary parameter: {e.args[0]}"}, 400
ParameterMissing(key) ==
  [kind |-> "ParameterMissing", status |-> 400, detail |-> key, path |-> NoPath]

\* raise HTTPException(status_code=500, detail="Error during inference")
InferenceError ==
  [kind |-> "HTTPException", status |-> 500,
   detail |-> "Error during inference", path |-> NoPath]

\* return FileResponse(path, ...)
FileResponse(path) ==
  [kind |-> "FileResponse", status |-> 200, detail |-> None, path |-> path]

\* An exception no except clause of the handler catches.
Unhandled(name) ==
  [kind |-> name, status |-> 500, detail |-> None, path |-> NoPath]

\* ------------------------------------------------------------- handlers
\* A field of the request is drawn from its input set when the handler
\* first reads it, and is kept in data from then on.

\* The handlers declared with def instead of async def: each call runs in
\* a worker thread, and nothing keeps two calls apart.
RunningInThread(r) == TRUE

\* Both handlers are coroutines (async def) of one event loop, which runs
\* one coroutine at a time, from one await to the next: r takes a step
\* when the loop is free or is running r already.
Running(r) == loop \in {0, r}

\* The handler's last statement: it returns `res`, or raises it.
End(r, res) == [req EXCEPT ![r].pc = "end", ![r].result = res]

\* A request arrives.  predict has no await before its return: it takes the
\* event loop until it ends.  batch_predict first awaits excel_file.read().
Arrive(r) ==
  /\ req[r].pc = "idle"
  /\ IF r = 1 THEN TRUE ELSE req[r-1].pc # "idle"
  /\ \E h \in {"predict", "batch_predict"} :
       \/ /\ h = "predict"
          /\ Running(r)
          /\ req' = [req EXCEPT ![r].pc = "resolve", ![r].handler = h]
          /\ loop' = r
       \/ /\ h = "batch_predict"
          /\ req' = [req EXCEPT ![r].pc = "read", ![r].handler = h]
          /\ loop' = loop
  /\ UNCHANGED <<sovits_model, gpt_model, fs, ui>>

\* batch_predict: contents = await excel_file.read() completes.
ReadExcel(r) ==
  /\ req[r].pc = "read"
  /\ Running(r)
  /\ req' = [req EXCEPT ![r].pc = "resolve"]
  /\ loop' = r
  /\ UNCHANGED <<sovits_model, gpt_model, fs, ui>>

\* The request with character name c and the caller's identity fields i.
Received(d, c, i) ==
  [d EXCEPT !.character_name = c,
            !.ref_audio_path = i.ref_audio_path,
            !.prompt_text = i.prompt_text,
            !.prompt_language = i.prompt_language,
            !.gpt_weights = i.gpt_weights,
            !.sovits_weights = i.sovits_weights]

\* Overwrite with the assignment of sovits_weights left out.
OverwriteFour(d, c) ==
  [d EXCEPT !.ref_audio_path = example_json[c].audio_path,
            !.prompt_text = example_json[c].ref_text,
            !.prompt_language = example_json[c].ref_language,
            !.gpt_weights = example_json[c].gpt_weights]

\* data.<field> = example_json[data.character_name][<key>], five times.
Overwrite(d, c) ==
  [d EXCEPT !.ref_audio_path = example_json[c].audio_path,
            !.prompt_text = example_json[c].ref_text,
            !.prompt_language = example_json[c].ref_language,
            !.gpt_weights = example_json[c].gpt_weights,
            !.sovits_weights = example_json[c].sovits_weights]

\* Resolve with a lookup that yields nothing for an unknown name instead
\* of raising KeyError (example_json.get): the caller's fields stay.
ResolveWithoutKeyError(r) ==
  /\ req[r].pc = "resolve"
  /\ loop = r
  /\ \E c \in CharacterNames, i \in CallerIdentity :
       LET d == Received(req[r].data, c, i) IN
       IF c \in DOMAIN example_json
         THEN req' = [req EXCEPT ![r].pc = "sovits_cmp",
                                 ![r].data = Overwrite(d, c)]
         ELSE req' = [req EXCEPT ![r].pc = "sovits_cmp", ![r].data = d]
  /\ UNCHANGED <<sovits_model, gpt_model, fs, loop, ui>>

\* if data.character_name is not None: the five assignments.
\* An unknown name: KeyError, caught by `except KeyError`.
Resolve(r) ==
  /\ req[r].pc = "resolve"
  /\ Running(r)
  /\ \E c \in CharacterNames, i \in CallerIdentity :
       LET d == Received(req[r].data, c, i) IN
       IF c = None
         THEN req' = [req EXCEPT ![r].pc = "sovits_cmp", ![r].data = d]
         ELSE IF c \in DOMAIN example_json
           THEN req' = [req EXCEPT ![r].pc = "sovits_cmp",
                                   ![r].data = Overwrite(d, c)]
           ELSE req' = [End(r, ParameterMissing(c)) EXCEPT ![r].data = d]
  /\ UNCHANGED <<sovits_model, gpt_model, fs, loop, ui>>

\* The comparison left out: the weights are loaded for every request.
SovitsAlwaysDiffers(r) == TRUE

\* if tts_inference.sovits_model != data.sovits_weights:
SovitsDiffers(r) == sovits_model # req[r].data.sovits_weights

CompareSovits(r) ==
  /\ req[r].pc = "sovits_cmp"
  /\ Running(r)
  /\ req' = [req EXCEPT ![r].pc = IF SovitsDiffers(r) THEN "sovits_chg"
                                                      ELSE "gpt_cmp",
                        ![r].seen.sovits = sovits_model]
  /\ UNCHANGED <<sovits_model, gpt_model, fs, loop, ui>>

\*     tts_inference.change_sovits_weights(data.sovits_weights)
ChangeSovits(r) ==
  /\ req[r].pc = "sovits_chg"
  /\ Running(r)
  /\ change_sovits_weights(req[r].data.sovits_weights)
  /\ req' = [req EXCEPT ![r].pc = "gpt_cmp",
               ![r].calls = Append(@, ChangeCall("sovits",
                                                 req[r].data.sovits_weights))]
  /\ UNCHANGED <<gpt_model, fs, loop, ui>>

\* if tts_inference.gpt_model != data.gpt_weights:
GptDiffers(r) == gpt_model # req[r].data.gpt_weights

\* Where the handler goes on after the weights.
AfterWeights(r) == IF req[r].handler = "predict" THEN "infer" ELSE "row"

CompareGpt(r) ==
  /\ req[r].pc = "gpt_cmp"
  /\ Running(r)
  /\ req' = [req EXCEPT ![r].pc = IF GptDiffers(r) THEN "gpt_chg"
                                                   ELSE AfterWeights(r),
                        ![r].seen.gpt = gpt_model]
  /\ UNCHANGED <<sovits_model, gpt_model, fs, loop, ui>>

\*     tts_inference.change_gpt_weights(data.gpt_weights)
ChangeGpt(r) ==
  /\ req[r].pc = "gpt_chg"
  /\ Running(r)
  /\ change_gpt_weights(req[r].data.gpt_weights)
  /\ req' = [req EXCEPT ![r].pc = AfterWeights(r),
               ![r].calls = Append(@, ChangeCall("gpt",
                                                 req[r].data.gpt_weights))]
  /\ UNCHANGED <<sovits_model, fs, loop, ui>>

\* The arguments of tts_inference.infer are evaluated before the call:
\* LANG_DICT[data.prompt_language], then LANG_DICT[data.text_language].
\* Either lookup raises KeyError inside the inner try.
LangKeyError(d) ==
  \/ d.prompt_language \notin DOMAIN LANG_DICT
  \/ d.text_language \notin DOMAIN LANG_DICT

CallArgs(d, text) ==
  InferArgs(d.ref_audio_path, d.prompt_text, LANG_DICT[d.prompt_language],
            text, LANG_DICT[d.text_language])

\* The outcomes of infer(...) followed by next(audio_generator): the pair
\* (sr, audio) is yielded, or infer raises, or next raises.
EngineOutcomes == {"ok", "infer_raises", "next_raises"}

\* The values data.text_language may have: drawn at its first read.
TextLanguageOf(d) ==
  IF d.text_language = Unread THEN TextLanguages ELSE {d.text_language}

\* TryInfer with one retry: after a first failure of the engine the
\* handler calls infer again instead of raising.
TryInferAgain(r, d, text, ok) ==
  IF LangKeyError(d)
    THEN req' = [End(r, InferenceError) EXCEPT ![r].data = d,
                   ![r].seen = IdleReq.seen]
    ELSE \E out \in EngineOutcomes :
           IF out = "ok"
             THEN req' = [req EXCEPT ![r] = ok]
             ELSE IF \A k \in DOMAIN req[r].calls : req[r].calls[k].op # "infer"
               THEN req' = [req EXCEPT ![r].data = d,
                              ![r].calls = Append(@, InferCall(CallArgs(d, text)))]
               ELSE req' = [End(r, InferenceError) EXCEPT ![r].data = d,
                              ![r].seen = IdleReq.seen,
                              ![r].calls = Append(@, InferCall(CallArgs(d, text)))]

\* The inner try of both handlers: the call of infer and next().
\* `except Exception` turns whatever is raised in it, the KeyError of a
\* language lookup included, into HTTPException(500).  `ok` is the request
\* after a successful call.
TryInfer(r, d, text, ok) ==
  IF LangKeyError(d)
    THEN req' = [End(r, InferenceError) EXCEPT ![r].data = d,
                   ![r].seen = IdleReq.seen]
    ELSE \E out \in EngineOutcomes :
           IF out = "ok"
             THEN req' = [req EXCEPT ![r] = ok]
             ELSE req' = [End(r, InferenceError) EXCEPT ![r].data = d,
                            ![r].seen = IdleReq.seen,
                            ![r].calls = Append(@, InferCall(CallArgs(d, text))),
                            ![r].nexts = IF out = "next_raises" THEN @ + 1
                                                                ELSE @]

\* predict: the inner try.
Infer(r) ==
  /\ req[r].pc = "infer"
  /\ Running(r)
  /\ \E l \in TextLanguageOf(req[r].data) :
       LET d == [req[r].data EXCEPT !.text_language = l]
           text == <<r, 1>>
       IN TryInfer(r, d, text,
            [req[r] EXCEPT !.pc = "write", !.data = d,
               !.seen = IdleReq.seen,
               !.calls = Append(@, InferCall(CallArgs(d, text))),
               !.nexts = @ + 1,
               !.audio = Synthesized(CallArgs(d, text))])
  /\ UNCHANGED <<sovits_model, gpt_model, fs, loop, ui>>

\* predict: temp_file = NamedTemporaryFile(delete=False, suffix=".wav");
\* sf.write(temp_file.name, audio, sr, 'PCM_24')
WriteWav(r) ==
  /\ req[r].pc = "write"
  /\ Running(r)
  /\ LET temp_file == NamedTemporaryFile(fs) IN
       /\ fs' = WriteFile(fs, temp_file, req[r].audio)
       /\ req' = [req EXCEPT ![r].pc = "return",
                             ![r].audio_files = <<temp_file>>]
  /\ UNCHANGED <<sovits_model, gpt_model, loop, ui>>

\* predict: background_tasks.add_task(remove_temp_file, temp_file.name);
\* return FileResponse(temp_file.name, media_type='audio/wav')
ReturnWav(r) ==
  /\ req[r].pc = "return"
  /\ Running(r)
  /\ req[r].handler = "predict"
  /\ LET temp_file == req[r].audio_files[1] IN
       req' = [End(r, FileResponse(temp_file)) EXCEPT
                 ![r].tasks = Append(@, temp_file)]
  /\ UNCHANGED <<sovits_model, gpt_model, fs, loop, ui>>

\* batch_predict: one turn of `for text, filename in zip(texts, filenames)`,
\* or the end of the table.  The table is read row by row: the row's text
\* is named by the request and the row's index.
BatchRow(r) ==
  /\ req[r].pc = "row"
  /\ Running(r)
  /\ \/ /\ req' = [req EXCEPT ![r].pc = "zip", ![r].seen = IdleReq.seen]
        /\ fs' = fs
     \/ /\ req[r].rows < MaxRows
        /\ \E filename \in FileNames, l \in TextLanguageOf(req[r].data) :
             LET d == [req[r].data EXCEPT !.text_language = l]
                 text == <<r, req[r].rows + 1>>
                 temp_file == NamedTemporaryFile(fs)
                 final_path == TmpDirJoin(filename)
             IN
             /\ TryInfer(r, d, text,
                  [req[r] EXCEPT !.data = d,
                     !.seen = IdleReq.seen,
                     !.calls = Append(@, InferCall(CallArgs(d, text))),
                     !.nexts = @ + 1,
                     !.audio = Synthesized(CallArgs(d, text)),
                     !.audio_files = Append(@, final_path),
                     !.rows = @ + 1])
             /\ fs' = IF req'[r].pc = "row"
                        THEN Rename(WriteFile(fs, temp_file,
                                              Synthesized(CallArgs(d, text))),
                                    temp_file, final_path)
                        ELSE fs
  /\ UNCHANGED <<sovits_model, gpt_model, loop, ui>>

\* zipf.write(audio_file, os.path.basename(audio_file)) for each audio file.
ZipEntries(files, audio_files) ==
  [i \in 1..Len(audio_files) |->
     [name |-> Basename(audio_files[i]), data |-> files[audio_files[i]]]]

\* batch_predict: zip_file = NamedTemporaryFile(delete=False, suffix=".zip"),
\* the archive is written, and renamed when data.zip_filename is given.
Zip(r) ==
  /\ req[r].pc = "zip"
  /\ Running(r)
  /\ \E name \in ZipFileNames :
       LET zip_file == NamedTemporaryFile(fs)
           zipped == WriteFile(fs, zip_file,
                       [type |-> "zip",
                        entries |-> ZipEntries(fs, req[r].audio_files)])
       IN
       IF name # None
         THEN /\ fs' = Rename(zipped, zip_file, TmpDirJoin(name))
              /\ req' = [req EXCEPT ![r].pc = "return",
                                    ![r].data.zip_filename = name,
                                    ![r].zip_file = zip_file,
                                    ![r].final_zip_path = TmpDirJoin(name)]
         ELSE /\ fs' = zipped
              /\ req' = [req EXCEPT ![r].pc = "return",
                                    ![r].data.zip_filename = name,
                                    ![r].zip_file = zip_file]
  /\ UNCHANGED <<sovits_model, gpt_model, loop, ui>>

\* batch_predict: add_task(remove_temp_file, audio_file) for each audio
\* file, add_task(remove_temp_file, final_zip_path), return FileResponse.
\* Reading final_zip_path when it was never assigned: UnboundLocalError.
ReturnZip(r) ==
  /\ req[r].pc = "return"
  /\ Running(r)
  /\ req[r].handler = "batch_predict"
  /\ IF req[r].final_zip_path = Unbound
       THEN req' = [End(r, Unhandled("UnboundLocalError")) EXCEPT
                      ![r].tasks = req[r].audio_files]
       ELSE req' = [End(r, FileResponse(req[r].final_zip_path)) EXCEPT
                      ![r].tasks = Append(req[r].audio_files,
                                          req[r].final_zip_path)]
  /\ UNCHANGED <<sovits_model, gpt_model, fs, loop, ui>>

\* The handler's frame is left and the event loop is free again.  A
\* FileResponse goes to transmission with the registered tasks; after
\* any other end the registered tasks are not run and the request is over.
Exit(r) ==
  /\ req[r].pc = "end"
  /\ Running(r)
  /\ req' = [req EXCEPT ![r] =
       IF req[r].result.kind = "FileResponse"
         THEN [IdleReq EXCEPT !.pc = "sending", !.handler = req[r].handler,
                              !.result = req[r].result,
                              !.tasks = req[r].tasks]
         ELSE [IdleReq EXCEPT !.pc = "done"]]
  /\ loop' = 0
  /\ UNCHANGED <<sovits_model, gpt_model, fs, ui>>

\* ------------------------------------------------------------- response
\* The response is sent: the file at the response's path is read, and
\* the transmission completes or breaks off.
Transmit(r) ==
  /\ req[r].pc = "sending"
  /\ loop = 0
  /\ LET path == req[r].result.path IN
       IF Exists(fs, path)
         THEN \E ok \in BOOLEAN :
                req' = [req EXCEPT ![r].pc = "background",
                          ![r].sent = IF ok THEN fs[path]
                                            ELSE [type |-> "aborted"]]
         ELSE req' = [req EXCEPT ![r].pc = "background",
                        ![r].sent = [type |-> "missing"]]
  /\ UNCHANGED <<sovits_model, gpt_model, fs, loop, ui>>

\* The registered tasks run in the order of registration; a task that
\* raises ends the run.
RECURSIVE RunTasks(_, _)
RunTasks(files, tasks) ==
  IF tasks = << >> THEN [files |-> files, raised |-> FALSE]
  ELSE LET one == remove_temp_file(files, Head(tasks)) IN
       IF one.raised THEN one ELSE RunTasks(one.files, Tail(tasks))

\* After the transmission the response's background tasks run.
RunBackground(r) ==
  /\ req[r].pc = "background"
  /\ loop = 0
  /\ fs' = RunTasks(fs, req[r].tasks).files
  /\ req' = [req EXCEPT ![r] = [IdleReq EXCEPT !.pc = "done"]]
  /\ UNCHANGED <<sovits_model, gpt_model, loop, ui>>

\* ------------------------------------------------------------- webui
\* What the model dropdowns of the UI resolve to:
\* sovits_model_handler.models_info[speaker][model], and the same for gpt.
UiModels == { [sovits_model |-> "s2.pth", gpt_model |-> "g2.ckpt"] }

\* get_tts_wav is called.
UiCall ==
  /\ ui.pc = "idle"
  /\ \E m \in UiModels :
       ui' = [pc |-> "sovits_cmp", sovits_model |-> m.sovits_model,
              gpt_model |-> m.gpt_model]
  /\ UNCHANGED <<sovits_model, gpt_model, fs, req, loop>>

\* if tts_inference.sovits_model != sovits_model:
UiCompareSovits ==
  /\ ui.pc = "sovits_cmp"
  /\ ui' = [ui EXCEPT !.pc = IF sovits_model # ui.sovits_model
                               THEN "sovits_chg" ELSE "gpt_cmp"]
  /\ UNCHANGED <<sovits_model, gpt_model, fs, req, loop>>

UiChangeSovits ==
  /\ ui.pc = "sovits_chg"
  /\ change_sovits_weights(ui.sovits_model)
  /\ ui' = [ui EXCEPT !.pc = "gpt_cmp"]
  /\ UNCHANGED <<gpt_model, fs, req, loop>>

\* if tts_inference.gpt_model != gpt_model:
UiCompareGpt ==
  /\ ui.pc = "gpt_cmp"
  /\ ui' = [ui EXCEPT !.pc = IF gpt_model # ui.gpt_model
                               THEN "gpt_chg" ELSE "infer"]
  /\ UNCHANGED <<sovits_model, gpt_model, fs, req, loop>>

UiChangeGpt ==
  /\ ui.pc = "gpt_chg"
  /\ change_gpt_weights(ui.gpt_model)
  /\ ui' = [ui EXCEPT !.pc = "infer"]
  /\ UNCHANGED <<sovits_model, fs, req, loop>>

\* tts_inference.infer(...); next(audio_generator); return (sr, audio)
UiInfer ==
  /\ ui.pc = "infer"
  /\ ui' = IdleUi
  /\ UNCHANGED <<sovits_model, gpt_model, fs, req, loop>>

\* ------------------------------------------------------------- system
\* A request arrives, over HTTP or from the UI.
Start ==
  \/ \E r \in Reqs : Arrive(r)
  \/ UiCall

\* A request that has arrived over HTTP goes on.
HttpContinue ==
  \/ \E r \in Reqs : ReadExcel(r)
  \/ \E r \in Reqs : Resolve(r)
  \/ \E r \in Reqs : CompareSovits(r)
  \/ \E r \in Reqs : ChangeSovits(r)
  \/ \E r \in Reqs : CompareGpt(r)
  \/ \E r \in Reqs : ChangeGpt(r)
  \/ \E r \in Reqs : Infer(r)
  \/ \E r \in Reqs : WriteWav(r)
  \/ \E r \in Reqs : ReturnWav(r)
  \/ \E r \in Reqs : BatchRow(r)
  \/ \E r \in Reqs : Zip(r)
  \/ \E r \in Reqs : ReturnZip(r)
  \/ \E r \in Reqs : Exit(r)
  \/ \E r \in Reqs : Transmit(r)
  \/ \E r \in Reqs : RunBackground(r)

\* A call of the UI goes on, in its worker thread.
UiContinue ==
  \/ UiCompareSovits
  \/ UiChangeSovits
  \/ UiCompareGpt
  \/ UiChangeGpt
  \/ UiInfer

\* A request that has arrived goes on.
Continue == HttpContinue \/ UiContinue

Next == Start \/ Continue

\* The server as it runs: requests arrive at any time.
Spec == Init /\ [][Next]_vars

\* No request is being handled.
Quiet ==
  /\ ui.pc = "idle"
  /\ \A r \in Reqs : req[r].pc \in {"idle", "done"}

\* Requests handled one after another: a request arrives only when no
\* other is being handled.
SeqNext == (Quiet /\ Start) \/ Continue

SeqSpec == Init /\ [][SeqNext]_vars

\* The HTTP handlers alone: requests arrive at any time, the UI is not used.
HttpStart == \E r \in Reqs : Arrive(r)

HttpNext == HttpStart \/ HttpContinue

HttpSpec == Init /\ [][HttpNext]_vars

\* ------------------------------------------------------------- claims
\* The request names a character of the preset table.
KnownCharacter(r) == req[r].data.character_name \in DOMAIN example_json

\* The request names a character, and the preset table has none of that name.
UnknownCharacter(r) ==
  /\ req[r].data.character_name \notin DOMAIN example_json
  /\ req[r].data.character_name \notin {None, Unread}

Calls(r) == req[r].calls
IsChange(c) == c.op = "change"
IsInfer(c) == c.op = "infer"

\* C1: for a character name of the preset table, both handlers overwrite
\* the five identity fields of the request with the preset's values,
\* whatever the caller sent, and what they pass to the engine (the paths of
\* the weight changes; the reference audio, the reference text and the
\* code of the reference language of infer) are the preset's values.
C1_PresetOverwritesIdentity ==
  \A r \in Reqs :
    KnownCharacter(r) =>
      LET d == req[r].data
          preset == example_json[d.character_name]
      IN
      /\ d.ref_audio_path = preset.audio_path
      /\ d.prompt_text = preset.ref_text
      /\ d.prompt_language = preset.ref_language
      /\ d.gpt_weights = preset.gpt_weights
      /\ d.sovits_weights = preset.sovits_weights
      /\ \A k \in DOMAIN Calls(r) :
           LET c == Calls(r)[k] IN
           IF IsChange(c)
             THEN c.path = IF c.kind = "sovits" THEN preset.sovits_weights
                                                ELSE preset.gpt_weights
             ELSE /\ c.args.ref_audio_path = preset.audio_path
                  /\ c.args.prompt_text = preset.ref_text
                  /\ c.args.prompt_language = LANG_DICT[preset.ref_language]

\* A batch request for a known character has changed both weights and has
\* called infer for two rows; a single request for a known character has
\* called infer.
C1_Witness ==
  \E r \in Reqs :
    /\ KnownCharacter(r)
    /\ req[r].handler = "batch_predict"
    /\ Len(Calls(r)) = 4
    /\ IsChange(Calls(r)[1]) /\ IsChange(Calls(r)[2])
    /\ IsInfer(Calls(r)[3]) /\ IsInfer(Calls(r)[4])

\* C2: for a character name that the preset table lacks, the handler ends
\* with ParameterMissing naming that name, having called the engine not at
\* all (no weight change, no infer), created no artifact and registered no
\* cleanup; the step that finds the name missing and the step that leaves
\* the handler change neither the active weights nor the files.
C2_State ==
  \A r \in Reqs :
    UnknownCharacter(r) =>
      /\ req[r].pc = "end"
      /\ req[r].result = ParameterMissing(req[r].data.character_name)
      /\ Calls(r) = << >>
      /\ req[r].audio_files = << >>
      /\ req[r].zip_file = Unbound
      /\ req[r].tasks = << >>

C2_Step ==
  \A r \in Reqs :
    (UnknownCharacter(r)' /\ req'[r] # req[r]) \/
    (UnknownCharacter(r) /\ req'[r] # req[r])
      => UNCHANGED <<sovits_model, gpt_model, fs>>

C2_UnknownCharacterNoInference == []C2_State /\ [][C2_Step]_vars

C2_Witness ==
  \E r \in Reqs :
    /\ UnknownCharacter(r)
    /\ req[r].pc = "end"
    /\ req[r].result.kind = "ParameterMissing"
    /\ req[r].handler = "batch_predict"
    /\ \E q \in Reqs : q # r /\ req[q].pc = "sending"

\* C3: removing a path twice never raises: the second remove_temp_file,
\* of a path that is gone, passes and leaves the files as they are.
C3_RemoveTwiceNeverRaises ==
  \A p \in DOMAIN fs :
    LET once == remove_temp_file(fs, p)
        twice == remove_temp_file(once.files, p)
    IN ~once.raised /\ ~twice.raised /\ twice.files = once.files

\* The request has invoked the weight change of this kind.
HasChange(r, kind) ==
  \E k \in DOMAIN Calls(r) : IsChange(Calls(r)[k]) /\ Calls(r)[k].kind = kind

\* C4: with requests handled one after another, a handler invokes the
\* weight change of a kind exactly when the requested path differs from
\* the active one: the change is invoked while they differ, it has been
\* invoked if and only if the comparison read a different path, and either
\* way the requested path is the active one afterwards, so that the next
\* request for the same weights finds them active and changes nothing.
\* No weight change of a request follows an infer call of it.
C4_SwapExactlyWhenDifferent ==
  /\ \A r \in Reqs :
       LET d == req[r].data
           pc == req[r].pc
       IN
       /\ pc = "sovits_chg" => sovits_model # d.sovits_weights
       /\ pc = "gpt_chg" => gpt_model # d.gpt_weights
       /\ req[r].seen.sovits # Unread =>
            /\ pc # "sovits_chg" =>
                 /\ HasChange(r, "sovits") <=> req[r].seen.sovits # d.sovits_weights
                 /\ sovits_model = d.sovits_weights
       /\ req[r].seen.gpt # Unread =>
            /\ pc # "gpt_chg" =>
                 /\ HasChange(r, "gpt") <=> req[r].seen.gpt # d.gpt_weights
                 /\ gpt_model = d.gpt_weights
       /\ \A i, j \in DOMAIN Calls(r) :
            i < j => ~(IsInfer(Calls(r)[i]) /\ IsChange(Calls(r)[j]))
  /\ ui.pc = "sovits_chg" => sovits_model # ui.sovits_model
  /\ ui.pc \in {"gpt_cmp", "gpt_chg", "infer"} => sovits_model = ui.sovits_model
  /\ ui.pc = "gpt_chg" => gpt_model # ui.gpt_model
  /\ ui.pc = "infer" => gpt_model = ui.gpt_model

\* The second request is for character c1 and found c1's weights active,
\* as an earlier request for c1 left them: it goes on to infer without
\* having changed any weights.
C4_Witness ==
  /\ req[2].data.character_name = "c1"
  /\ req[2].pc = "infer"
  /\ req[2].seen = [sovits |-> "s1.pth", gpt |-> "g1.ckpt"]
  /\ Calls(2) = << >>

\* The request is in batch_predict.
InBatch(r) == req[r].handler = "batch_predict"

\* C5: a batch of N rows that all synthesize produces N WAV artifacts,
\* the i-th holding the audio of the i-th row's text, and a zip artifact
\* whose N entries are those WAVs in row order.
C5_BatchProducesNWavsAndZip ==
  \A r \in Reqs :
    (InBatch(r) /\ req[r].pc = "return") =>
      LET files == req[r].audio_files
          N == req[r].rows
          zip == IF req[r].final_zip_path # Unbound
                   THEN req[r].final_zip_path ELSE req[r].zip_file
      IN
      /\ Len(files) = N
      /\ Cardinality({files[i] : i \in 1..N}) = N
      /\ \A i \in 1..N :
           /\ Exists(fs, files[i])
           /\ fs[files[i]].type = "wav"
           /\ fs[files[i]].text = <<r, i>>
      /\ Exists(fs, zip)
      /\ fs[zip].type = "zip"
      /\ Len(fs[zip].entries) = N
      /\ \A i \in 1..N :
           /\ fs[zip].entries[i].name = Basename(files[i])
           /\ fs[zip].entries[i].data.type = "wav"
           /\ fs[zip].entries[i].data.text = <<r, i>>

\* C6: when a row of a batch fails, the batch ends with the synthesis
\* error, with no artifact for that row or a later one and no zip, and
\* with the removal of every WAV created so far registered.
C6_BatchAbortSchedulesCleanup ==
  \A r \in Reqs :
    (InBatch(r) /\ req[r].pc = "end" /\ req[r].result = InferenceError) =>
      /\ Len(req[r].audio_files) = req[r].rows
      /\ req[r].zip_file = Unbound
      /\ req[r].tasks = req[r].audio_files

\* The paths whose removal the request has registered.
Registered(r) == {req[r].tasks[k] : k \in DOMAIN req[r].tasks}

\* C7: no artifact is removed before its response is sent, and none stays
\* for ever: when every request is over, no file is left.
C7_CleanupAfterTransmissionAlways ==
  /\ \A r \in Reqs :
       req[r].pc = "sending" => \A p \in Registered(r) : Exists(fs, p)
  /\ (\A r \in Reqs : req[r].pc \in {"idle", "done"}) => DOMAIN fs = {}

\* C8: a request whose prompt_language or text_language is no key of
\* LANG_DICT ends with ParameterMissing naming that key, and infer is not
\* called for it.
C8_UnknownLanguageIsParameterMissing ==
  \A r \in Reqs :
    LET d == req[r].data IN
    (req[r].pc = "end" /\ d.text_language # Unread /\ LangKeyError(d)) =>
      /\ req[r].result.kind = "ParameterMissing"
      /\ req[r].result.status = 400
      /\ req[r].result.detail =
           IF d.prompt_language \notin DOMAIN LANG_DICT
             THEN d.prompt_language ELSE d.text_language
      /\ \A k \in DOMAIN Calls(r) : ~IsInfer(Calls(r)[k])

\* C9: when all rows of a batch have synthesized, the handler returns the
\* path of the existing zip, and has registered the removal of every row
\* artifact and then of that zip, whether zip_filename was given or not.
C9_ZipCleanupHasValidTarget ==
  \A r \in Reqs :
    (InBatch(r) /\ req[r].pc = "end" /\ req[r].zip_file # Unbound) =>
      /\ req[r].result.kind = "FileResponse"
      /\ Exists(fs, req[r].result.path)
      /\ fs[req[r].result.path].type = "zip"
      /\ req[r].tasks = Append(req[r].audio_files, req[r].result.path)

\* The artifacts of a request that is not over yet: in the handler, the
\* audio files and the zip; after it, the paths registered for removal.
Artifacts(r) ==
  IF req[r].pc \in {"sending", "background"} THEN req[r].tasks
  ELSE req[r].audio_files \o
       (IF req[r].final_zip_path # Unbound THEN <<req[r].final_zip_path>>
        ELSE IF req[r].zip_file # Unbound THEN <<req[r].zip_file>>
        ELSE << >>)

\* C10: no two live artifacts share a path, within a request or across
\* requests.
C10_ArtifactPathsUnique ==
  /\ \A r \in Reqs :
       \A i, j \in DOMAIN Artifacts(r) :
         i # j => Artifacts(r)[i] # Artifacts(r)[j]
  /\ \A r, q \in Reqs :
       r # q =>
         \A i \in DOMAIN Artifacts(r), j \in DOMAIN Artifacts(q) :
           Artifacts(r)[i] # Artifacts(q)[j]

\* The engine raised in predict: the handler has ended, infer was called,
\* and no audio came back.
InPredict(r) == req[r].handler = "predict"
HasInfer(r) == \E k \in DOMAIN Calls(r) : IsInfer(Calls(r)[k])
EngineRaised(r) ==
  /\ InPredict(r)
  /\ req[r].pc = "end"
  /\ HasInfer(r)
  /\ req[r].audio = NoContent

\* C11: when the engine raises in a single request, the request ends
\* with the fixed synthesis error (500, "Error during inference", nothing
\* of the engine's exception in it), infer was called exactly once and
\* next at most once, no artifact was created and no cleanup registered;
\* the failing step creates no file, and the request is then over without
\* a transmission or a background task.
C11_State ==
  \A r \in Reqs :
    EngineRaised(r) =>
      /\ req[r].result = InferenceError
      /\ Cardinality({k \in DOMAIN Calls(r) : IsInfer(Calls(r)[k])}) = 1
      /\ IsInfer(Calls(r)[Len(Calls(r))])
      /\ req[r].nexts <= 1
      /\ req[r].audio_files = << >>
      /\ req[r].tasks = << >>

C11_Step ==
  \A r \in Reqs :
    /\ (EngineRaised(r)' /\ ~EngineRaised(r)) => fs' = fs
    /\ (EngineRaised(r) /\ req'[r] # req[r]) =>
         /\ req'[r].pc = "done"
         /\ fs' = fs

C11_EngineFailureIsTerminal == []C11_State /\ [][C11_Step]_vars

\* The engine raised in a single request that had changed both weights,
\* while the response of another request waits for its transmission.
C11_Witness ==
  \E r \in Reqs :
    /\ EngineRaised(r)
    /\ Len(Calls(r)) = 3
    /\ req[r].nexts = 1
    /\ \E q \in Reqs : q # r /\ req[q].pc = "sending"

\* The handler is at a call of infer: the inner try of predict, or the
\* row loop of batch_predict.
AtInfer(r) == req[r].pc \in {"infer", "row"}

\* The handler is between its first weight comparison and its last call
\* of infer.
InWeightsToInfer(r) ==
  req[r].pc \in {"sovits_cmp", "sovits_chg", "gpt_cmp", "gpt_chg",
                 "infer", "row"}

\* The batch request has arrived and its read of the table is complete:
\* the handler waits to go on to its weights.
ReadyToGoOn(q) == req[q].pc = "read"

\* C12 (as stated): nothing serialises the weight swap against inference
\* between the HTTP handlers: while one request is between its weight
\* comparison and its last infer call, another request that has arrived
\* can go on to change the weights.
C12_NothingSerialisesSwapAndInfer ==
  \A r, q \in Reqs :
    (r # q /\ KnownCharacter(r) /\ InWeightsToInfer(r) /\ ReadyToGoOn(q))
      => ENABLED ReadExcel(q)

\* C12 (amended): with requests handled concurrently by the HTTP handlers
\* alone, every infer call of a request runs with the weights that request
\* asked for active, and while a request is between its weight comparison
\* and its last infer call no other request's handler takes a step or
\* changes the weights.
C12_State ==
  \A r \in Reqs :
    AtInfer(r) =>
      /\ sovits_model = req[r].data.sovits_weights
      /\ gpt_model = req[r].data.gpt_weights

C12_Step ==
  \A r \in Reqs :
    (InWeightsToInfer(r) /\ req'[r] = req[r]) =>
      /\ sovits_model' = sovits_model
      /\ gpt_model' = gpt_model
      /\ \A q \in Reqs : req[q].pc \notin {"sending", "background"} =>
                           req'[q].pc \in {req[q].pc, "read"}

C12_HttpHandlersSerialised == []C12_State /\ [][C12_Step]_vars

\* A batch for character c1 has synthesized a row and is about to
\* synthesize the next, while another request has arrived and waits, and
\* an earlier one left c2's weights, which the batch replaced.
C12_Witness ==
  \E r, q \in Reqs :
    /\ r # q
    /\ req[r].pc = "row"
    /\ req[r].rows = 1
    /\ req[r].data.character_name = "c1"
    /\ HasChange(r, "sovits")
    /\ req[r].seen.sovits = Unread
    /\ ReadyToGoOn(q)

\* C13: whenever a handler has called a weight change or infer, every
\* identity field of the request is set, from the preset or by the caller,
\* and no weight change was called with an unset path.
C13_IdentitySetBeforeEngine ==
  \A r \in Reqs :
    Calls(r) # << >> =>
      LET d == req[r].data IN
      /\ d.ref_audio_path # None
      /\ d.prompt_text # None
      /\ d.prompt_language # None
      /\ d.gpt_weights # None
      /\ d.sovits_weights # None
      /\ \A k \in DOMAIN Calls(r) :
           IsChange(Calls(r)[k]) => Calls(r)[k].path # None

====
